---- MODULE Spec2Model ----
(***************************************************************************)
(* School forum API: registration and login (routes/auth.js over the       *)
(* Prisma-backed User class), category routes (routes/categories.js over   *)
(* the Prisma-backed Category class) and post routes (routes/posts.js over *)
(* the Post document model).                                               *)
(*                                                                         *)
(* Every route handler is an async function: it runs atomically between    *)
(* two awaits, and handlers of different requests interleave at the        *)
(* awaits.  A step of the model is one such atomic stretch: a storage      *)
(* call together with the synchronous code that consumes its result.       *)
(***************************************************************************)
EXTENDS Integers, Sequences, FiniteSets, TLC

VARIABLES
    users,       \* rows of the user table (prisma.user)
    reg,         \* registration requests: position in the handler, body, response
    loginResp,   \* the response of the most recent login request
    categories,  \* rows of the category table (prisma.category)
    catResp,     \* the response of the most recent category request
    posts,       \* the post collection: PostIds -> document or NoPost
    req,         \* post requests in flight (between findById and the write)
    resp,        \* the response of the most recent post request
    nreq,        \* number of post requests started so far
    readResp     \* the most recent read response: status and records in its body

vars == <<users, reg, loginResp, categories, catResp, posts, req, resp, nreq,
          readResp>>

authVars == <<users, reg, loginResp>>
catVars  == <<categories, catResp>>
postVars == <<posts, req, resp, nreq>>
readVars == <<readResp>>

(***************************************************************************)
(* Bounds.                                                                 *)
(***************************************************************************)
NumRegs == 2        \* concurrent registration requests
MaxCats == 2        \* rows the category table may hold
MaxRequests == 4    \* post requests started in one behaviour

\* JavaScript's undefined (an absent body field, a findUnique miss)
None == "undefined"

Falsy(v) == v \in {None, ""}

(***************************************************************************)
(* String conversions, on the strings the model draws its inputs from.     *)
(***************************************************************************)
ToUpperCase(s) ==
    CASE s = "student" -> "STUDENT"
      [] s = "teacher" -> "TEACHER"
      [] s = "Teacher" -> "TEACHER"
      [] s = "admin"   -> "ADMIN"
      [] OTHER         -> s

ToLowerCase(s) ==
    CASE s = "A@x.io" -> "a@x.io"
      [] s = "B@x.io" -> "b@x.io"
      [] OTHER        -> s

\* express-validator isEmail on the input strings
IsEmail(s) == ToLowerCase(s) \in {"a@x.io", "b@x.io"}

\* express-validator normalizeEmail: lower-cases the address
NormalizeEmail(s) == ToLowerCase(s)

\* bcrypt.hash / bcrypt.compare: a one-way image of the plaintext
Hash(pw) == <<"bcrypt", pw>>
Compare(candidate, hashed) == hashed = Hash(candidate)

(***************************************************************************)
(* models/User (Prisma).                                                   *)
(***************************************************************************)
\* the static methods class User defines; there are no instance methods
UserStatics ==
    {"create", "findById", "findByEmail", "findByUsername", "findByIdAndUpdate",
     "findByIdAndDelete", "find", "comparePassword", "updateLastLogin", "toJSON",
     "count"}

\* User.findByEmail: findUnique on the lower-cased address
FindByEmail(email) == {u \in users : u.email = ToLowerCase(email)}

\* User.findByUsername: findUnique on the username
FindByUsername(username) == {u \in users : u.username = username}

\* User.create, lines 8-13: the role-conditional checks that throw
RoleError(data) ==
    IF data.role = "STUDENT" /\ Falsy(data.grade)
        THEN "Grade is required for students"
    ELSE IF data.role = "TEACHER" /\ Falsy(data.subject)
        THEN "Subject is required for teachers"
    ELSE None

\* User.create, lines 16-27: the row handed to prisma.user.create
ProcessedData(data) ==
    [username |-> data.username,
     email    |-> ToLowerCase(data.email),
     password |-> Hash(data.password),
     role     |-> data.role,
     grade    |-> data.grade,
     subject  |-> data.subject]

\* prisma.user.create: username and email are unique columns (findUnique
\* is called on each), so an insert that repeats either one throws
UniqueViolation(row) ==
    \E u \in users : u.email = row.email \/ u.username = row.username

NewUserRow(row, id) ==
    [id |-> id, username |-> row.username, email |-> row.email,
     password |-> row.password, role |-> row.role, grade |-> row.grade,
     subject |-> row.subject]

(***************************************************************************)
(* POST /api/auth/register                                                 *)
(***************************************************************************)
Usernames == {"ann", "bob", "al"}
Emails    == {"a@x.io", "A@x.io", "b@x.io"}
Profiles  ==
    { [role |-> None,      grade |-> None, subject |-> None],
      [role |-> None,      grade |-> "10", subject |-> None],
      [role |-> "student", grade |-> "10", subject |-> None],
      [role |-> "teacher", grade |-> None, subject |-> None],
      [role |-> "Teacher", grade |-> None, subject |-> "Math"],
      [role |-> "admin",   grade |-> None, subject |-> None] }

RegBodies ==
    { [username |-> n, email |-> e, password |-> "secret",
       role |-> p.role, grade |-> p.grade, subject |-> p.subject] :
      n \in Usernames, e \in Emails, p \in Profiles }

RegIds == 1..NumRegs

NoBody == [username |-> None, email |-> None, password |-> None,
           role |-> None, grade |-> None, subject |-> None]

IdleReg == [pc |-> "new", body |-> NoBody, status |-> 0, error |-> None,
            role |-> None]

\* the validation chain of the route (lines 11-13)
ValidRegister(b) ==
    /\ Len(b.username) >= 3
    /\ IsEmail(b.email)
    /\ Len(b.password) >= 6

\* line 36: the role as it is stored
StoredRole(role) == IF Falsy(role) THEN "STUDENT" ELSE ToUpperCase(role)

Respond(r, status, error) ==
    [reg[r] EXCEPT !.pc = "done", !.status = status, !.error = error]

\* lines 15-27: validation, then findByEmail and the code up to the next await
RegisterStart(r, b) ==
    /\ reg[r].pc = "new"
    /\ LET body == [b EXCEPT !.email = NormalizeEmail(b.email)]
           cur  == [reg[r] EXCEPT !.body = body]
       IN  reg' = [reg EXCEPT ![r] =
             IF ~ValidRegister(b)
                 THEN [cur EXCEPT !.pc = "done", !.status = 400,
                                  !.error = "validation"]
             ELSE IF FindByEmail(body.email) # {}
                 THEN [cur EXCEPT !.pc = "done", !.status = 400,
                                  !.error = "User already exists"]
             ELSE [cur EXCEPT !.pc = "username"]]
    /\ UNCHANGED <<users, loginResp, catVars, postVars, readVars>>

\* lines 30-38 and User.create up to its first await: findByUsername, the
\* stored role and the role-conditional checks, whose throw ends in the
\* route's catch (lines 62-65)
RegisterUsername(r) ==
    /\ reg[r].pc = "username"
    /\ LET b    == reg[r].body
           data == [b EXCEPT !.role = StoredRole(b.role)]
       IN  reg' = [reg EXCEPT ![r] =
             IF FindByUsername(b.username) # {}
                 THEN Respond(r, 400, "Username already taken")
             ELSE IF RoleError(data) # None
                 THEN Respond(r, 500, "Server error: validation")
             ELSE [reg[r] EXCEPT !.pc = "create", !.body = data]]
    /\ UNCHANGED <<users, loginResp, catVars, postVars, readVars>>

\* User.create lines 29-33 and the route's lines 49-65: the insert, then
\* 201, or the insert's throw caught as a 500
RegisterCreate(r) ==
    /\ reg[r].pc = "create"
    /\ LET row == ProcessedData(reg[r].body)
       IN  IF UniqueViolation(row)
               THEN /\ reg' = [reg EXCEPT ![r] =
                          Respond(r, 500, "Server error: unique")]
                    /\ UNCHANGED users
               ELSE /\ users' = users \cup {NewUserRow(row, Cardinality(users) + 1)}
                    /\ reg' = [reg EXCEPT ![r] =
                          [Respond(r, 201, None) EXCEPT !.role = row.role]]
    /\ UNCHANGED <<loginResp, catVars, postVars, readVars>>

(***************************************************************************)
(* POST /api/auth/login                                                    *)
(***************************************************************************)
LoginEmails    == {"a@x.io", "A@x.io", "b@x.io", "nomail"}
LoginPasswords == {"secret", "wrong!"}

NoLogin == [email |-> None, password |-> None, status |-> 0, error |-> None]

\* lines 73-104.  The handler calls User.findOne and user.comparePassword;
\* a call of a method the class does not define throws a TypeError inside
\* the try block, which the catch turns into a 500.
Login(email, password) ==
    /\ LET e     == NormalizeEmail(email)
           found == {u \in users : u.email = e}
           out   ==
             IF ~IsEmail(email)
                 THEN <<400, "validation">>
             ELSE IF "findOne" \notin UserStatics
                 THEN <<500, "Server error">>
             ELSE IF found = {}
                 THEN <<400, "Invalid credentials">>
             ELSE IF \A u \in found : ~Compare(password, u.password)
                 THEN <<400, "Invalid credentials">>
             ELSE <<200, None>>
       IN  loginResp' = [email |-> email, password |-> password,
                         status |-> out[1], error |-> out[2]]
    /\ UNCHANGED <<users, reg, catVars, postVars, readVars>>

NextAuth ==
    \/ \E r \in RegIds, b \in RegBodies : RegisterStart(r, b)
    \/ \E r \in RegIds : RegisterUsername(r)
    \/ \E r \in RegIds : RegisterCreate(r)
    \/ \E e \in LoginEmails, p \in LoginPasswords : Login(e, p)

(***************************************************************************)
(* models/Category (Prisma) and routes/categories.js                       *)
(***************************************************************************)
\* the static methods class Category defines; there are no instance methods
CategoryStatics ==
    {"create", "findById", "find", "findByIdAndUpdate", "findByIdAndDelete",
     "findByName", "count", "toJSON"}

\* String.prototype.trim on the input strings
Trim(s) == IF s = "Math " THEN "Math" ELSE s

CatNames == {"Math", "Math ", "Art", ""}
CatDescs == {None, "text"}
CatIds   == 1..(MaxCats + 1)

CategoryRow(id, name, desc) ==
    [id |-> id, name |-> name, description |-> desc, isActive |-> TRUE]

\* Category.findById: findUnique on the id
CatFindById(id) == {c \in categories : c.id = id}

\* name is a unique column (findByName calls findUnique on it)
NameTaken(name) == \E c \in categories : c.name = name

\* Category.create: the trimmed row is inserted; a repeated name throws
CategoryCreate(name, desc) ==
    /\ Cardinality(categories) < MaxCats
    /\ Trim(name) # ""
    /\ IF NameTaken(Trim(name))
           THEN UNCHANGED categories
           ELSE categories' = categories \cup
                    {CategoryRow(Cardinality(categories) + 1, Trim(name), desc)}
    /\ UNCHANGED <<catResp, authVars, postVars, readVars>>

\* middleware requireTeacherOrAdmin
CanModerate(role) == role \in {"TEACHER", "ADMIN"}

StoredRoles == {StoredRole(p.role) : p \in Profiles}

CatResponse(op, role, id, name, status, error) ==
    [op |-> op, role |-> role, id |-> id, name |-> name,
     status |-> status, error |-> error]

\* body('name').trim().isLength({min: 1, max: 50})
ValidCatName(name) == Len(Trim(name)) >= 1 /\ Len(Trim(name)) <= 50

\* POST /api/categories, lines 40-78.  Category.findOne is not a method of
\* the class, so the call throws inside the try block and the catch
\* answers 500; the same holds for category.save of a passing request.
CatCreateOutcome(role, name) ==
    IF ~CanModerate(role) THEN <<403, "Forbidden">>
    ELSE IF ~ValidCatName(name) THEN <<400, "validation">>
    ELSE IF "findOne" \notin CategoryStatics THEN <<500, "Server error">>
    ELSE IF NameTaken(Trim(name)) THEN <<400, "Category already exists">>
    ELSE IF "save" \notin CategoryStatics THEN <<500, "Server error">>
    ELSE <<201, None>>

CatCreateRoute(role, name, desc) ==
    /\ LET out == CatCreateOutcome(role, name)
       IN  /\ catResp' = CatResponse("create", role, 0, name, out[1], out[2])
           /\ IF out[1] = 201
                  THEN categories' = categories \cup
                           {CategoryRow(Cardinality(categories) + 1, Trim(name), desc)}
                  ELSE UNCHANGED categories
    /\ UNCHANGED <<authVars, postVars, readVars>>

\* PUT /api/categories/:id, lines 81-121.  A changed name reaches
\* Category.findOne and throws before the write.  Otherwise the call of
\* Category.findByIdAndUpdate issues the update, and .populate on the
\* promise it returns throws: the row is written and the answer is 500.
CatUpdateRoute(role, id, name, desc) ==
    /\ LET found == CatFindById(id)
           cat   == CHOOSE c \in found : TRUE
           n     == IF name = None THEN None ELSE Trim(name)
       IN  IF ~CanModerate(role)
               THEN /\ catResp' = CatResponse("update", role, id, name, 403, "Forbidden")
                    /\ UNCHANGED categories
           ELSE IF name # None /\ ~ValidCatName(name)
               THEN /\ catResp' = CatResponse("update", role, id, name, 400, "validation")
                    /\ UNCHANGED categories
           ELSE IF found = {}
               THEN /\ catResp' = CatResponse("update", role, id, name, 404,
                                              "Category not found")
                    /\ UNCHANGED categories
           ELSE IF ~Falsy(n) /\ n # cat.name /\ "findOne" \notin CategoryStatics
               THEN /\ catResp' = CatResponse("update", role, id, name, 500,
                                              "Server error")
                    /\ UNCHANGED categories
           ELSE IF ~Falsy(n) /\ n # cat.name /\ NameTaken(n)
               THEN /\ catResp' = CatResponse("update", role, id, name, 400,
                                              "Category name already exists")
                    /\ UNCHANGED categories
           ELSE /\ categories' = (categories \ {cat}) \cup
                      {[cat EXCEPT !.name = IF n = None THEN @ ELSE n,
                                   !.description = IF desc = None THEN @ ELSE desc]}
                /\ catResp' = CatResponse("update", role, id, name, 500, "Server error")
    /\ UNCHANGED <<authVars, postVars, readVars>>

\* DELETE /api/categories/:id, lines 124-138: the soft delete
CatDeleteRoute(role, id) ==
    /\ LET found == CatFindById(id)
       IN  IF ~CanModerate(role)
               THEN /\ catResp' = CatResponse("delete", role, id, None, 403, "Forbidden")
                    /\ UNCHANGED categories
           ELSE IF found = {}
               THEN /\ catResp' = CatResponse("delete", role, id, None, 404,
                                              "Category not found")
                    /\ UNCHANGED categories
           ELSE /\ categories' = {IF c.id = id THEN [c EXCEPT !.isActive = FALSE]
                                              ELSE c : c \in categories}
                /\ catResp' = CatResponse("delete", role, id, None, 200, None)
    /\ UNCHANGED <<authVars, postVars, readVars>>

NoCatResp == CatResponse(None, None, 0, None, 0, None)

\* no read request answered yet
NoRead == [op |-> None, status |-> 0, posts |-> {}, categories |-> {}]

\* res.json of a read endpoint: the status and the records in the body
ReadResponse(op, status, ps, cs) ==
    [op |-> op, status |-> status, posts |-> ps, categories |-> cs]

\* what the value an async static returns (a Promise) can be called with
PromiseMethods == {"then", "catch", "finally"}

\* GET /api/categories, lines 9-20.  Category.find is an async static, so
\* .populate is called on the promise and throws inside the try block; the
\* catch answers 500 and the body carries no category.
CatList ==
    /\ readResp' = IF "populate" \notin PromiseMethods
                       THEN ReadResponse("catList", 500, {}, {})
                       ELSE ReadResponse("catList", 200, {},
                                         {c \in categories : c.isActive})
    /\ UNCHANGED <<authVars, catVars, postVars>>

\* GET /api/categories/:id, lines 23-37: the same call chain on
\* Category.findById; the handler itself has no isActive check
CatGet(id) ==
    /\ readResp' = IF "populate" \notin PromiseMethods
                       THEN ReadResponse("catGet", 500, {}, {})
                   ELSE IF CatFindById(id) = {}
                       THEN ReadResponse("catGet", 404, {}, {})
                   ELSE ReadResponse("catGet", 200, {}, CatFindById(id))
    /\ UNCHANGED <<authVars, catVars, postVars>>

NextCat ==
    \/ \E n \in CatNames, d \in CatDescs : CategoryCreate(n, d)
    \/ \E r \in StoredRoles, n \in CatNames, d \in CatDescs : CatCreateRoute(r, n, d)
    \/ \E r \in StoredRoles, i \in CatIds, n \in CatNames \cup {None}, d \in CatDescs :
           CatUpdateRoute(r, i, n, d)
    \/ \E r \in StoredRoles, i \in CatIds : CatDeleteRoute(r, i)

(***************************************************************************)
(* routes/posts.js over the Post document model.                           *)
(*                                                                         *)
(* A handler reads the document with Post.findById, decides on the copy it *)
(* holds, and writes after a further await.  post.save() sends the changes *)
(* made to the copy: an assigned field is set to the assigned value, an    *)
(* array push appends to the stored array, an array pull removes every     *)
(* stored occurrence.  Post.findByIdAndUpdate sets the given fields.       *)
(***************************************************************************)
PostIds == {"p1"}
ReqIds  == {1, 2}
UserIds == {1, 2}

NoPost ==
    [author |-> 0, category |-> 0, title |-> None, content |-> None,
     tags |-> None, isEdited |-> FALSE, isActive |-> FALSE, isPinned |-> FALSE,
     isLocked |-> FALSE, views |-> 0, likes |-> <<>>, replies |-> <<>>]

\* new Post({title, content, author, category, tags}) with the schema defaults
NewPost(author, category, title, content, tags) ==
    [author |-> author, category |-> category, title |-> title,
     content |-> content, tags |-> tags, isEdited |-> FALSE, isActive |-> TRUE,
     isPinned |-> FALSE, isLocked |-> FALSE, views |-> 0, likes |-> <<>>,
     replies |-> <<>>]

\* Post.findById returned a document
Found(p) == posts[p].author # 0

\* req.user, as authenticateToken loads it: the stored row of the caller
UserRow(a) == CHOOSE u \in users : u.id = a

Idle == [op |-> None, actor |-> 0, post |-> None, val |-> None]

NoResp == [op |-> None, actor |-> 0, post |-> None, status |-> 0,
           error |-> None, valid |-> TRUE]

Response(op, a, p, status, error, valid) ==
    [op |-> op, actor |-> a, post |-> p, status |-> status, error |-> error,
     valid |-> valid]

\* a post document as a read response carries it
PostDoc(p, doc) == [id |-> p, isActive |-> doc.isActive]

\* a request arrives and takes the first free slot
StartGuard(s) ==
    /\ nreq < MaxRequests
    /\ req[s].op = None
    /\ \A t \in ReqIds : t < s => req[t].op # None

\* the handler answers without writing
Reject(op, a, p, status, error, valid) ==
    /\ resp' = Response(op, a, p, status, error, valid)
    /\ nreq' = nreq + 1
    /\ UNCHANGED <<posts, req>>

\* the handler passed its checks and awaits its write
Proceed(s, op, a, p, val) ==
    /\ req' = [req EXCEPT ![s] = [op |-> op, actor |-> a, post |-> p, val |-> val]]
    /\ nreq' = nreq + 1
    /\ UNCHANGED <<posts, resp>>

\* the write of slot s and the answer after it
Commit(s, doc, status) ==
    /\ posts' = [posts EXCEPT ![req[s].post] = doc]
    /\ resp' = Response(req[s].op, req[s].actor, req[s].post, status, None, TRUE)
    /\ req' = [req EXCEPT ![s] = Idle]
    /\ UNCHANGED nreq

(* POST /api/posts, lines 83-122 *)
CreatePost(a, p, cat) ==
    /\ nreq < MaxRequests
    /\ ~Found(p)
    /\ IF CatFindById(cat) = {}
           THEN Reject("create", a, p, 400, "Invalid category", TRUE)
           ELSE /\ posts' = [posts EXCEPT ![p] =
                      NewPost(a, cat, "Hello", "first text", "[]")]
                /\ resp' = Response("create", a, p, 201, None, TRUE)
                /\ nreq' = nreq + 1
                /\ UNCHANGED req
    /\ UNCHANGED <<authVars, catVars, readVars>>

(* GET /api/posts/:id, lines 60-80 *)
\* findById and the 404 check; the slot holds the handler's copy of the
\* document after post.views += 1
GetStart(s, p) ==
    /\ StartGuard(s)
    /\ IF ~Found(p) \/ ~posts[p].isActive
           THEN /\ Reject("get", 0, p, 404, "Post not found", TRUE)
                /\ readResp' = ReadResponse("get", 404, {}, {})
           ELSE /\ Proceed(s, "get", 0, p,
                           [views |-> posts[p].views + 1,
                            isActive |-> posts[p].isActive])
                /\ UNCHANGED readResp
    /\ UNCHANGED <<authVars, catVars>>

\* post.save() writes the copy's views; res.json(post) sends the copy
GetSave(s) ==
    /\ req[s].op = "get"
    /\ Commit(s, [posts[req[s].post] EXCEPT !.views = req[s].val.views], 200)
    /\ readResp' = ReadResponse("get", 200,
                                {PostDoc(req[s].post, req[s].val)}, {})
    /\ UNCHANGED <<authVars, catVars>>

\* Post.find with no condition on isActive
ListPostsAll ==
    /\ readResp' = ReadResponse("list", 200,
                       {PostDoc(p, posts[p]) : p \in {q \in PostIds : Found(q)}},
                       {})
    /\ UNCHANGED <<authVars, catVars, postVars>>

(* GET /api/posts, lines 10-57: Post.find({isActive: true}); the documents *)
(* of the body are those this call returned                                *)
ListPosts ==
    /\ readResp' = ReadResponse("list", 200,
                       {PostDoc(p, posts[p]) :
                            p \in {q \in PostIds : Found(q) /\ posts[q].isActive}},
                       {})
    /\ UNCHANGED <<authVars, catVars, postVars>>

(* PUT /api/posts/:id, lines 125-170 *)
UpdateBodies ==
    { [title |-> "Howdy", content |-> None,          tags |-> None],
      [title |-> None,    content |-> "second text", tags |-> "[x]"],
      [title |-> None,    content |-> None,          tags |-> None],
      [title |-> "Hi",    content |-> None,          tags |-> None] }

\* lines 126-128: the optional fields, when present, have the required length
ValidUpdate(b) ==
    /\ b.title = None \/ (Len(b.title) >= 5 /\ Len(b.title) <= 200)
    /\ b.content = None \/ (Len(b.content) >= 10 /\ Len(b.content) <= 5000)

\* MayModify with the ownership and role check dropped
MayModifyUnchecked(doc, user) == doc.author # 0

\* lines 142-143 and 181-182: the caller is the author or has one of the
\* roles the handler lists
MayModify(doc, user) ==
    doc.author = user.id \/ user.role \in {"admin", "teacher"}

\* lines 130-145: the answer of the update handler before its write, 0 if
\* it goes on to write
UpdateCheck(doc, user, b) ==
    IF ~ValidUpdate(b) THEN 400
    ELSE IF doc.author = 0 THEN 404
    ELSE IF ~MayModify(doc, user) THEN 403
    ELSE 0

UpdateStart(s, a, p, b) ==
    /\ StartGuard(s)
    /\ LET st == UpdateCheck(posts[p], UserRow(a), b)
       IN  IF st # 0
               THEN Reject("update", a, p, st,
                           CASE st = 400 -> "validation"
                             [] st = 404 -> "Post not found"
                             [] OTHER    -> "Not authorized to edit this post",
                           st # 400)
               ELSE Proceed(s, "update", a, p, b)
    /\ UNCHANGED <<authVars, catVars, readVars>>

\* UpdateSave that also marks the document active again
UpdateSaveReactivates(s) ==
    /\ req[s].op = "update"
    /\ LET b == req[s].val
       IN  Commit(s, [posts[req[s].post] EXCEPT
                        !.title    = IF Falsy(b.title) THEN @ ELSE b.title,
                        !.content  = IF Falsy(b.content) THEN @ ELSE b.content,
                        !.tags     = IF Falsy(b.tags) THEN @ ELSE b.tags,
                        !.isEdited = TRUE,
                        !.isActive = TRUE], 200)
    /\ UNCHANGED <<authVars, catVars, readVars>>

\* UpdateSave that writes all three body fields, supplied or not
UpdateSaveOverwritesAll(s) ==
    /\ req[s].op = "update"
    /\ LET b == req[s].val
       IN  Commit(s, [posts[req[s].post] EXCEPT
                        !.title    = b.title,
                        !.content  = b.content,
                        !.tags     = b.tags,
                        !.isEdited = TRUE], 200)
    /\ UNCHANGED <<authVars, catVars, readVars>>

\* lines 147-166: findByIdAndUpdate with the fields that were supplied
UpdateSave(s) ==
    /\ req[s].op = "update"
    /\ LET b == req[s].val
       IN  Commit(s, [posts[req[s].post] EXCEPT
                        !.title    = IF Falsy(b.title) THEN @ ELSE b.title,
                        !.content  = IF Falsy(b.content) THEN @ ELSE b.content,
                        !.tags     = IF Falsy(b.tags) THEN @ ELSE b.tags,
                        !.isEdited = TRUE], 200)
    /\ UNCHANGED <<authVars, catVars, readVars>>

(* DELETE /api/posts/:id, lines 173-193 *)
DeleteCheck(doc, user) ==
    IF doc.author = 0 THEN 404
    ELSE IF ~MayModify(doc, user) THEN 403
    ELSE 0

DeleteStart(s, a, p) ==
    /\ StartGuard(s)
    /\ LET st == DeleteCheck(posts[p], UserRow(a))
       IN  IF st # 0
               THEN Reject("delete", a, p, st,
                           IF st = 404 THEN "Post not found"
                           ELSE "Not authorized to delete this post", TRUE)
               ELSE Proceed(s, "delete", a, p, None)
    /\ UNCHANGED <<authVars, catVars, readVars>>

DeleteSave(s) ==
    /\ req[s].op = "delete"
    /\ Commit(s, [posts[req[s].post] EXCEPT !.isActive = FALSE], 200)
    /\ UNCHANGED <<authVars, catVars, readVars>>

(* POST /api/posts/:id/replies, lines 196-232 *)
ReplyContents == {"ok", ""}

\* ReplyCheck with the lock not applied to moderators
ReplyCheckModeratorsExempt(doc, user, content) ==
    IF Len(content) < 1 \/ Len(content) > 2000 THEN 400
    ELSE IF doc.author = 0 \/ ~doc.isActive THEN 404
    ELSE IF doc.isLocked /\ user.role \notin {"TEACHER", "ADMIN"} THEN 403
    ELSE 0

\* lines 199-212: the answer of the reply handler before its write, 0 if it
\* goes on to write
ReplyCheck(doc, user, content) ==
    IF Len(content) < 1 \/ Len(content) > 2000 THEN 400
    ELSE IF doc.author = 0 \/ ~doc.isActive THEN 404
    ELSE IF doc.isLocked THEN 403
    ELSE 0

ReplyStart(s, a, p, content) ==
    /\ StartGuard(s)
    /\ LET st == ReplyCheck(posts[p], UserRow(a), content)
       IN  IF st # 0
               THEN Reject("reply", a, p, st,
                           CASE st = 400 -> "validation"
                             [] st = 404 -> "Post not found"
                             [] OTHER    -> "Post is locked",
                           st # 400)
               ELSE Proceed(s, "reply", a, p, content)
    /\ UNCHANGED <<authVars, catVars, readVars>>

\* lines 214-228: the pushed reply is appended to the stored replies
ReplySave(s) ==
    /\ req[s].op = "reply"
    /\ Commit(s, [posts[req[s].post] EXCEPT
                    !.replies = Append(@, [content |-> req[s].val,
                                           author |-> req[s].actor])], 201)
    /\ UNCHANGED <<authVars, catVars, readVars>>

(* POST /api/posts/:id/like, lines 235-261 *)
\* line 243: post.likes.includes(userId)
Includes(likes, u) == \E i \in 1..Len(likes) : likes[i] = u

\* line 246: post.likes.pull(userId)
Pull(likes, u) == SelectSeq(likes, LAMBDA x : x # u)

\* line 248: post.likes.push(userId)
Push(likes, u) == Append(likes, u)

\* lines 243-251 run without interruption: the like set after one toggle
Toggle(likes, u) == IF Includes(likes, u) THEN Pull(likes, u) ELSE Push(likes, u)

LikeStart(s, a, p) ==
    /\ StartGuard(s)
    /\ IF ~Found(p) \/ ~posts[p].isActive
           THEN Reject("like", a, p, 404, "Post not found", TRUE)
           ELSE Proceed(s, "like", a, p,
                        IF Includes(posts[p].likes, a) THEN "pull" ELSE "push")
    /\ UNCHANGED <<authVars, catVars, readVars>>

LikeSave(s) ==
    /\ req[s].op = "like"
    /\ Commit(s, [posts[req[s].post] EXCEPT
                    !.likes = IF req[s].val = "pull" THEN Pull(@, req[s].actor)
                                                     ELSE Push(@, req[s].actor)], 200)
    /\ UNCHANGED <<authVars, catVars, readVars>>

(* PATCH /api/posts/:id/pin, lines 264-281 *)
\* requireTeacherOrAdmin, then lines 266-269
ModerateCheck(doc, user) ==
    IF ~CanModerate(user.role) THEN 403
    ELSE IF doc.author = 0 THEN 404
    ELSE 0

PinStart(s, a, p) ==
    /\ StartGuard(s)
    /\ LET st == ModerateCheck(posts[p], UserRow(a))
       IN  IF st # 0
               THEN Reject("pin", a, p, st,
                           IF st = 404 THEN "Post not found" ELSE "Forbidden", TRUE)
               ELSE Proceed(s, "pin", a, p, ~posts[p].isPinned)
    /\ UNCHANGED <<authVars, catVars, readVars>>

PinSave(s) ==
    /\ req[s].op = "pin"
    /\ Commit(s, [posts[req[s].post] EXCEPT !.isPinned = req[s].val], 200)
    /\ UNCHANGED <<authVars, catVars, readVars>>

(* PATCH /api/posts/:id/lock, lines 284-301 *)
LockStart(s, a, p) ==
    /\ StartGuard(s)
    /\ LET st == ModerateCheck(posts[p], UserRow(a))
       IN  IF st # 0
               THEN Reject("lock", a, p, st,
                           IF st = 404 THEN "Post not found" ELSE "Forbidden", TRUE)
               ELSE Proceed(s, "lock", a, p, ~posts[p].isLocked)
    /\ UNCHANGED <<authVars, catVars, readVars>>

LockSave(s) ==
    /\ req[s].op = "lock"
    /\ Commit(s, [posts[req[s].post] EXCEPT !.isLocked = req[s].val], 200)
    /\ UNCHANGED <<authVars, catVars, readVars>>

Next ==
    \/ \E a \in UserIds, p \in PostIds, c \in CatIds : CreatePost(a, p, c)
    \/ \E s \in ReqIds, p \in PostIds : GetStart(s, p)
    \/ \E s \in ReqIds : GetSave(s)
    \/ \E s \in ReqIds, a \in UserIds, p \in PostIds, b \in UpdateBodies :
           UpdateStart(s, a, p, b)
    \/ \E s \in ReqIds : UpdateSave(s)
    \/ \E s \in ReqIds, a \in UserIds, p \in PostIds : DeleteStart(s, a, p)
    \/ \E s \in ReqIds : DeleteSave(s)
    \/ \E s \in ReqIds, a \in UserIds, p \in PostIds, c \in ReplyContents :
           ReplyStart(s, a, p, c)
    \/ \E s \in ReqIds : ReplySave(s)
    \/ \E s \in ReqIds, a \in UserIds, p \in PostIds : LikeStart(s, a, p)
    \/ \E s \in ReqIds : LikeSave(s)
    \/ \E s \in ReqIds, a \in UserIds, p \in PostIds : PinStart(s, a, p)
    \/ \E s \in ReqIds : PinSave(s)
    \/ \E s \in ReqIds, a \in UserIds, p \in PostIds : LockStart(s, a, p)
    \/ \E s \in ReqIds : LockSave(s)

\* the rows two successful registrations leave in the user table
RegisteredUser(id, name, email, profile) ==
    NewUserRow(ProcessedData([username |-> name, email |-> email,
                              password |-> "secret",
                              role |-> StoredRole(profile.role),
                              grade |-> profile.grade,
                              subject |-> profile.subject]), id)

Registrable ==
    {pr \in Profiles : RoleError([pr EXCEPT !.role = StoredRole(@)]) = None}

\* the state after start-up: empty tables, no request in flight
Init ==
    /\ users = {}
    /\ reg = [r \in RegIds |-> IdleReg]
    /\ loginResp = NoLogin
    /\ categories = {}
    /\ catResp = NoCatResp
    /\ posts = [p \in PostIds |-> NoPost]
    /\ req = [s \in ReqIds |-> Idle]
    /\ resp = NoResp
    /\ nreq = 0
    /\ readResp = NoRead

\* the forum in use: two registered users, one category, no post yet
InitForum ==
    /\ \E pa, pb \in Registrable :
          users = {RegisteredUser(1, "ann", "a@x.io", pa),
                   RegisteredUser(2, "bob", "b@x.io", pb)}
    /\ reg = [r \in RegIds |-> IdleReg]
    /\ loginResp = NoLogin
    /\ categories = {CategoryRow(1, "Math", "text")}
    /\ catResp = NoCatResp
    /\ posts = [p \in PostIds |-> NoPost]
    /\ req = [s \in ReqIds |-> Idle]
    /\ resp = NoResp
    /\ nreq = 0
    /\ readResp = NoRead

\* the forum with one post written by the first user
InitRead ==
    /\ \E pa, pb \in Registrable :
          users = {RegisteredUser(1, "ann", "a@x.io", pa),
                   RegisteredUser(2, "bob", "b@x.io", pb)}
    /\ reg = [r \in RegIds |-> IdleReg]
    /\ loginResp = NoLogin
    /\ categories = {CategoryRow(1, "Math", "text")}
    /\ catResp = NoCatResp
    /\ posts = [p \in PostIds |-> NewPost(1, 1, "Hello", "first text", "[]")]
    /\ req = [s \in ReqIds |-> Idle]
    /\ resp = NoResp
    /\ nreq = 0
    /\ readResp = NoRead

\* the read endpoints, with the soft deletes that run beside them
NextRead ==
    \/ ListPosts
    \/ \E s \in ReqIds, p \in PostIds : GetStart(s, p)
    \/ \E s \in ReqIds : GetSave(s)
    \/ \E s \in ReqIds, a \in UserIds, p \in PostIds : DeleteStart(s, a, p)
    \/ \E s \in ReqIds : DeleteSave(s)
    \/ CatList
    \/ \E i \in CatIds : CatGet(i)
    \/ \E r \in StoredRoles, i \in CatIds : CatDeleteRoute(r, i)

SpecAuth == Init /\ [][NextAuth]_vars

SpecCat == Init /\ [][NextCat]_vars

Spec == InitForum /\ [][Next]_vars

SpecRead == InitRead /\ [][NextRead]_vars

(***************************************************************************)
(* Claims about registration and login (checked under SpecAuth).           *)
(***************************************************************************)
\* registrations r1 and r2 carry the same address up to letter case, differ
\* in username, pass validation and the role-conditional checks, both have
\* been answered, and no other registration has been made
SameEmailPair(r1, r2) ==
    /\ r1 # r2
    /\ reg[r1].pc = "done" /\ reg[r2].pc = "done"
    /\ ToLowerCase(reg[r1].body.email) = ToLowerCase(reg[r2].body.email)
    /\ reg[r1].body.username # reg[r2].body.username
    /\ \A r \in {r1, r2} :
          /\ ValidRegister(reg[r].body)
          /\ RoleError([reg[r].body EXCEPT !.role = StoredRole(@)]) = None
    /\ \A r \in RegIds \ {r1, r2} : reg[r].pc = "new"

\* C4: of two registrations with the same email up to letter case, in any
\* interleaving of their steps, exactly one is answered 201 and the other a
\* duplicate error with status 400 or 409 (not 500), and no two stored users
\* share a lower-cased email.
C4_OneSuccessOneConflict ==
    /\ \A r1, r2 \in RegIds :
          SameEmailPair(r1, r2) =>
              \/ reg[r1].status = 201 /\ reg[r2].status \in {400, 409}
              \/ reg[r2].status = 201 /\ reg[r1].status \in {400, 409}
    /\ \A u, v \in users :
          ToLowerCase(u.email) = ToLowerCase(v.email) => u = v

\* the role the registration would store, and the fields it requires
MissingRoleField(b) ==
    \/ StoredRole(b.role) = "STUDENT" /\ Falsy(b.grade)
    \/ StoredRole(b.role) = "TEACHER" /\ Falsy(b.subject)

\* C5: a validated registration whose effective role is STUDENT without
\* grade, or TEACHER without subject, is answered 400 and creates no user;
\* a TEACHER registration with a subject that meets no other registration
\* is answered 201 with the role stored as TEACHER.
C5_RoleFieldsValidated ==
    \A r \in RegIds :
        (reg[r].pc = "done" /\ ValidRegister(reg[r].body)) =>
            /\ MissingRoleField(reg[r].body) =>
                  /\ reg[r].status = 400
                  /\ \A u \in users : u.username # reg[r].body.username
            /\ ( /\ StoredRole(reg[r].body.role) = "TEACHER"
                 /\ ~Falsy(reg[r].body.subject)
                 /\ \A q \in RegIds \ {r} : reg[q].pc = "new" ) =>
                  /\ reg[r].status = 201
                  /\ \E u \in users : /\ u.username = reg[r].body.username
                                      /\ u.role = "TEACHER"

\* the login named an address no user has, or a user's address with a
\* password that is not the user's
FailedLogin ==
    /\ loginResp # NoLogin
    /\ IsEmail(loginResp.email)
    /\ LET found == {u \in users : u.email = NormalizeEmail(loginResp.email)}
       IN  \/ found = {}
           \/ \A u \in found : ~Compare(loginResp.password, u.password)

\* C6: a login with a well-formed email that matches no user, and a login
\* with an existing email and a wrong password, are both answered with
\* status 400 and the error "Invalid credentials".
C6_InvalidCredentials ==
    FailedLogin =>
        /\ loginResp.status = 400
        /\ loginResp.error = "Invalid credentials"

(***************************************************************************)
(* Claims about categories (checked under SpecCat).                        *)
(***************************************************************************)
\* this step answers a moderator's valid create request whose name is the
\* name of a row of the table
DuplicateCreateStep ==
    /\ catResp' # catResp
    /\ catResp'.op = "create"
    /\ CanModerate(catResp'.role)
    /\ ValidCatName(catResp'.name)
    /\ NameTaken(Trim(catResp'.name))

NoTwoCategoriesShareAName ==
    \A c, d \in categories : c.name = d.name => c = d

\* C9: creating a category whose name is the name of an existing category,
\* active or soft-deleted, is answered 400 with a duplicate error and leaves
\* the categories unchanged; no two categories ever have the same name.
C9_DuplicateCategoryRejected ==
    /\ []NoTwoCategoriesShareAName
    /\ [][DuplicateCreateStep =>
            /\ catResp'.status = 400
            /\ catResp'.error = "Category already exists"
            /\ categories' = categories]_vars

(***************************************************************************)
(* Claims about posts (checked under Spec).                                *)
(***************************************************************************)
\* this step takes a slot for a request with an operation of ops on post p
TakesSlot(ops, p) ==
    \E s \in ReqIds : /\ req[s].op = None
                      /\ req'[s].op \in ops
                      /\ req'[s].post = p

NoSlotTaken == \A s \in ReqIds : req'[s].op = req[s].op

\* this step is the arrival of a request with an operation of ops on post p:
\* the handler either answers at once or takes a slot for its write
Arrives(ops, p) ==
    /\ nreq' = nreq + 1
    /\ \/ TakesSlot(ops, p)
       \/ NoSlotTaken /\ resp'.op \in ops /\ resp'.post = p

PostOps == {"get", "reply", "like", "pin", "lock", "update", "delete"}

\* C1: a request for get-by-id, add-reply, like, pin, lock, update or delete
\* that arrives at a soft-deleted post is answered 404 (a request refused
\* by validation or by the role check before the lookup aside) and changes
\* nothing on the post.
C1_DeletedPostIsNotFound ==
    [][\A p \in PostIds :
          (Found(p) /\ ~posts[p].isActive /\ Arrives(PostOps, p)) =>
              /\ NoSlotTaken
              /\ posts' = posts
              /\ resp'.status = 404 \/ ~resp'.valid
                    \/ (resp'.op \in {"pin", "lock"} /\ resp'.status = 403)]_vars

IsModerator(a) == UserRow(a).role \in {"TEACHER", "ADMIN"}

\* C2: a valid update or delete of an existing post by a TEACHER or ADMIN
\* who is not its author is never refused, and a delete that was answered
\* 200 leaves the post with isActive = FALSE.
C2_ModeratorMayModify ==
    /\ ( /\ resp.op \in {"update", "delete"}
         /\ resp.valid
         /\ Found(resp.post)
         /\ posts[resp.post].author # resp.actor
         /\ IsModerator(resp.actor) ) => resp.status = 200
    /\ (resp.op = "delete" /\ resp.status = 200) => ~posts[resp.post].isActive

NonAuthorStudent(a, p) ==
    /\ Found(p)
    /\ posts[p].author # a
    /\ UserRow(a).role = "STUDENT"

\* this step belongs to an update or delete request of actor a on post p
ModifyStepOf(a, p) ==
    \/ /\ nreq' = nreq + 1
       /\ \/ \E s \in ReqIds : /\ req[s].op = None
                               /\ req'[s].op \in {"update", "delete"}
                               /\ req'[s].post = p /\ req'[s].actor = a
          \/ /\ NoSlotTaken
             /\ resp'.op \in {"update", "delete"}
             /\ resp'.post = p /\ resp'.actor = a
    \/ \E s \in ReqIds : /\ req[s].op \in {"update", "delete"}
                         /\ req[s].post = p /\ req[s].actor = a
                         /\ req'[s].op = None

\* C3: every step of an update or delete requested by a STUDENT who is not
\* the post's author answers 403 (400 when the update's body fails
\* validation), takes no slot for a write and leaves the post's title,
\* content, tags, isEdited and isActive as they were.
C3_StudentNonAuthorForbidden ==
    [][\A a \in UserIds, p \in PostIds :
          (NonAuthorStudent(a, p) /\ ModifyStepOf(a, p)) =>
              /\ NoSlotTaken
              /\ resp'.op \in {"update", "delete"} /\ resp'.actor = a
              /\ resp'.status = IF resp'.valid THEN 403 ELSE 400
              /\ posts'[p].title = posts[p].title
              /\ posts'[p].content = posts[p].content
              /\ posts'[p].tags = posts[p].tags
              /\ posts'[p].isEdited = posts[p].isEdited
              /\ posts'[p].isActive = posts[p].isActive]_vars

\* a STUDENT who is not the author was answered 403 on a valid update
C3_Witness ==
    /\ resp.op = "update" /\ resp.valid /\ resp.status = 403
    /\ NonAuthorStudent(resp.actor, resp.post)
    /\ posts[resp.post].isActive

Members(likes) == {likes[i] : i \in 1..Len(likes)}

\* C7: on an active post, two like toggles of the same user in a row, with
\* nothing else in between, give back the like set's membership and count.
C7_DoubleToggleRestores ==
    \A p \in PostIds, u \in UserIds :
        (Found(p) /\ posts[p].isActive) =>
            LET twice == Toggle(Toggle(posts[p].likes, u), u)
            IN  /\ Members(twice) = Members(posts[p].likes)
                /\ Len(twice) = Len(posts[p].likes)

\* C8: a reply request that arrives at a locked post is refused whatever
\* the caller's role, author or not (403; 404 if the post is also
\* soft-deleted, 400 if the content fails validation), takes no slot for a
\* write, and the replies stay as they were.
C8_LockedPostRefusesReplies ==
    [][\A p \in PostIds :
          (Found(p) /\ posts[p].isLocked /\ Arrives({"reply"}, p)) =>
              /\ NoSlotTaken
              /\ resp'.status = IF ~resp'.valid THEN 400
                                ELSE IF ~posts[p].isActive THEN 404 ELSE 403
              /\ posts'[p].replies = posts[p].replies]_vars

\* a moderator's valid reply to a locked, active post was answered 403
C8_Witness ==
    /\ resp.op = "reply" /\ resp.valid /\ resp.status = 403
    /\ IsModerator(resp.actor)
    /\ posts[resp.post].isLocked /\ posts[resp.post].isActive

\* C10: the replies of a post change only in a step taken while the post is
\* active and not locked, and its likes only in a step taken while it is
\* active.
C10_WritesOnlyWhileOpen ==
    [][\A p \in PostIds :
          /\ posts'[p].replies # posts[p].replies =>
                (posts[p].isActive /\ ~posts[p].isLocked)
          /\ posts'[p].likes # posts[p].likes => posts[p].isActive]_vars

\* this step is the write of a pending request with operation op on post p
WriteOf(op, p) ==
    \E s \in ReqIds : /\ req[s].op = op
                      /\ req[s].post = p
                      /\ req'[s].op = None

\* C11: every successful get-by-id of a post raises its views by exactly
\* one, in any interleaving; views never decrease, and a get answered 404
\* leaves them as they were.
C11_ViewsCountFetches ==
    [][\A p \in PostIds :
          /\ WriteOf("get", p) => posts'[p].views = posts[p].views + 1
          /\ posts'[p].views >= posts[p].views
          /\ (Arrives({"get"}, p) /\ NoSlotTaken) => posts'[p].views = posts[p].views
      ]_vars

\* C12: the likes of a post hold each user id at most once, in every
\* reachable state.
C12_LikesHaveNoDuplicates ==
    \A p \in PostIds :
        \A i, j \in 1..Len(posts[p].likes) :
            posts[p].likes[i] = posts[p].likes[j] => i = j

\* C13: once a post's isActive is FALSE, no step of any request makes it
\* TRUE again.
C13_SoftDeleteIsTerminal ==
    [][\A p \in PostIds :
          (Found(p) /\ ~posts[p].isActive) => ~posts'[p].isActive]_vars

\* a reply read the post before its deletion and was written after it
C13_Witness ==
    /\ resp.op = "reply" /\ resp.status = 201
    /\ Found(resp.post) /\ ~posts[resp.post].isActive

\* C15: the write of an update sets isEdited, gives title, content and tags
\* the supplied values and keeps those that were not supplied, and leaves
\* views, likes, replies, author, category, isPinned, isLocked and isActive
\* as they were; the request is answered 200.
C15_EditChangesOnlySuppliedFields ==
    [][\A s \in ReqIds :
          (req[s].op = "update" /\ req'[s].op = None) =>
              LET p   == req[s].post
                  b   == req[s].val
                  old == posts[p]
                  new == posts'[p]
              IN  /\ new.isEdited
                  /\ new.title = IF b.title = None THEN old.title ELSE b.title
                  /\ new.content = IF b.content = None THEN old.content
                                                       ELSE b.content
                  /\ new.tags = IF b.tags = None THEN old.tags ELSE b.tags
                  /\ new.views = old.views
                  /\ new.likes = old.likes
                  /\ new.replies = old.replies
                  /\ new.author = old.author
                  /\ new.category = old.category
                  /\ new.isPinned = old.isPinned
                  /\ new.isLocked = old.isLocked
                  /\ new.isActive = old.isActive
                  /\ resp'.op = "update" /\ resp'.status = 200]_vars

\* an update that supplied only the title was written over a post that has
\* views: the title is new, content and tags are the original ones
C15_Witness ==
    /\ resp.op = "update" /\ resp.status = 200
    /\ posts[resp.post].isEdited
    /\ posts[resp.post].title = "Howdy"
    /\ posts[resp.post].content = "first text"
    /\ posts[resp.post].tags = "[]"
    /\ posts[resp.post].views > 0

\* the fields neither toggle touches
ToggleFrame(old, new) ==
    /\ new.isActive = old.isActive
    /\ new.views = old.views
    /\ new.likes = old.likes
    /\ new.replies = old.replies

\* C16: the write of a pin request flips isPinned and keeps isLocked, the
\* write of a lock request flips isLocked and keeps isPinned, and neither
\* changes isActive, views, likes or replies (so that two toggles restore
\* the flag).
C16_TogglesFlipOneFlag ==
    [][\A p \in PostIds :
          /\ WriteOf("pin", p) =>
                /\ posts'[p].isPinned = ~posts[p].isPinned
                /\ posts'[p].isLocked = posts[p].isLocked
                /\ ToggleFrame(posts[p], posts'[p])
          /\ WriteOf("lock", p) =>
                /\ posts'[p].isLocked = ~posts[p].isLocked
                /\ posts'[p].isPinned = posts[p].isPinned
                /\ ToggleFrame(posts[p], posts'[p])]_vars

====
